---- MODULE Spec2Model ----
(***************************************************************************)
(* Unix-domain socket peers of websocat (src/unix_peer.rs): the address    *)
(* codec of the raw-syscall builders, the builders themselves, descriptor  *)
(* adoption, the half-closable stream peer, the datagram peer and the      *)
(* listener streams.                                                       *)
(*                                                                         *)
(* Bytes are integers 0..255.  Paths and names are sequences of bytes.     *)
(* Index i of the source (0-based) is index i+1 here.                      *)
(***************************************************************************)
EXTENDS Integers, Sequences, FiniteSets, TLC

\* sun_path: [0; 108]
SunPathLen == 108
\* size_of::<sa_family_t>()
SaFamilySize == 2
\* b'@'
AT == 64
\* b'\x00'
NUL == 0
\* the separator of just_arg.split(":")
COLON == 58

\* ---- bounds of the model ------------------------------------------------
\* short names have 0..MaxShort bytes
MaxShort == 2
\* long names have SunPathLen-2 .. SunPathLen+MaxOver bytes
MaxOver == 2
\* connections that arrive at a listener
MaxConn == 2
\* per-accept errors a listener meets
MaxAcceptErr == 1
\* explicit shutdown() calls made on one peer
MaxShutdown == 2

VARIABLES
    cmd,        \* the invocation: [scheme, arg, unlink, workaround1, files]
    pc,         \* where the invocation stands
    specifier,  \* the specifier the class constructed: [type, a, b]
    fs,         \* the filesystem: the paths at which a file existed beforehand
    socks,      \* the filesystem: the paths at which a bound socket sits
    kern,       \* the kernel's sockets: fd -> [state, closes, rdShut, wrShut, stale]
    rc,         \* reference counts of the shared handles: fd -> strong count
    peers,      \* the peers constructed so far, in order
    stream,     \* the peer stream of a listener: [kind, fd, ended, errItems, accepts, dropped]
    pending,    \* connections waiting in the listener's backlog
    arrived,    \* connections that have arrived so far
    calls,      \* what the socket layer was handed: [bind, connect, unlinked, failed, fd]
    input,      \* codec: the name given to an encoder
    enc         \* codec: the last packed address

vars == <<cmd, pc, specifier, fs, socks, kern, rc, peers, stream, pending, arrived, calls, input, enc>>

\* ---- byte strings -------------------------------------------------------

Min2(a, b) == IF a < b THEN a ELSE b

Take(s, n) == SubSeq(s, 1, Min2(n, Len(s)))

\* a byte of a test name: never NUL, never '@', never ':', varies with the position
BodyByte(i) == 97 + (i % 7)

MkName(first, n) == [i \in 1..n |-> IF i = 1 THEN first ELSE BodyByte(i)]

NameLens == (0..MaxShort) \cup ((SunPathLen - 2)..(SunPathLen + MaxOver))

\* names as they come from the command line: no NUL byte
Names == {MkName(f, n) : f \in {AT, 97}, n \in NameLens}

\* the bytes of a C string held in buf: up to the first NUL
CStr(buf) ==
    LET z == {i \in DOMAIN buf : buf[i] = NUL}
        n == IF z = {} THEN Len(buf) ELSE (CHOOSE i \in z : \A j \in z : i <= j) - 1
    IN  SubSeq(buf, 1, n)

\* ---- the address codec --------------------------------------------------

to_abstract_at_sign(x) == <<AT>> \o x

\* format!("\x00{}", x).into()
to_abstract(x) == <<NUL>> \o x

\* sockaddr_un { sun_family: AF_UNIX, sun_path: [0; 108] }
ZeroPath == [i \in 1..SunPathLen |-> NUL]

ClampLenUnclamped(n) == n

\* let l = 108.min(bp.len());
ClampLen(n) == Min2(SunPathLen, n)

\* sa.sun_path[..l].copy_from_slice(&bp[..l]); a write at an index the buffer
\* does not have extends the domain, so that it shows
CopyFromSlice(buf, bp, l) ==
    [i \in (DOMAIN buf) \cup (1..l) |-> IF i <= l THEN bp[i] ELSE buf[i]]

\* sa.sun_path[i] = b
SetByte(buf, i, b) == [j \in DOMAIN buf |-> IF j = i THEN b ELSE buf[j]]

\* dgram_peer_workaround::getfd, the bind address
DgramBindAddr(bp) ==
    LET l == ClampLen(Len(bp))
    IN  [sun_path |-> CopyFromSlice(ZeroPath, bp, l),
         sa_len   |-> l + SaFamilySize,
         unlinked |-> <<>>]

\* dgram_peer_workaround::getfd, the connect address
DgramConnectAddr(bp) ==
    LET l == ClampLen(Len(bp))
    IN  [sun_path |-> CopyFromSlice(ZeroPath, bp, l),
         sa_len   |-> l + SaFamilySize,
         unlinked |-> <<>>]

\* seqpacket_connect_peer::getfd
SeqConnectAddr(bp) ==
    LET l   == ClampLen(Len(bp))
        sa0 == CopyFromSlice(ZeroPath, bp, l)
        sa1 == IF sa0[1] = AT THEN SetByte(sa0, 1, NUL) ELSE sa0
    IN  [sun_path |-> sa1, sa_len |-> l + SaFamilySize, unlinked |-> <<>>]

\* seqpacket_listen_peer::getfd; unlinked holds the path given to unlink(), if any
SeqListenAddr(bp, unlink) ==
    LET l   == ClampLen(Len(bp))
        sa0 == CopyFromSlice(ZeroPath, bp, l)
        sa1 == IF sa0[1] = AT THEN SetByte(sa0, 1, NUL)
               ELSE IF unlink THEN SetByte(sa0, SunPathLen, NUL)
               ELSE sa0
    IN  [sun_path |-> sa1,
         sa_len   |-> l + SaFamilySize,
         unlinked |-> IF sa0[1] # AT /\ unlink THEN <<CStr(sa1)>> ELSE <<>>]

\* the address bytes the kernel is given: sa_len less the family field
AddrBytes(sa) == SubSeq(sa.sun_path, 1, sa.sa_len - SaFamilySize)

\* an abstract address: a NUL first byte followed by a name
IsAbstractAddr(sa) == sa.sa_len > SaFamilySize /\ sa.sun_path[1] = NUL

\* the filesystem path the kernel binds for a pathname address: a C string
KernelPath(sa) == CStr(AddrBytes(sa))

\* ---- the kernel's sockets -----------------------------------------------

Fds == 1..(1 + MaxConn)

NoSock == [state |-> "unused", closes |-> 0, rdShut |-> 0, wrShut |-> 0, stale |-> FALSE]

\* the descriptor socket() or accept() returns: a kernel object not used before
FreshFd(k) == CHOOSE f \in Fds : k[f].state = "unused" /\ \A g \in Fds : k[g].state = "unused" => f <= g

\* socket(AF_UNIX, ..., 0) succeeded
KSocket(k, fd) == [k EXCEPT ![fd].state = "open"]

\* close(fd); closing what is not open is recorded as a stale use
KClose(k, fd) ==
    [k EXCEPT ![fd] = [@ EXCEPT !.state = "closed", !.closes = @ + 1,
                                !.stale = @ \/ k[fd].state # "open"]]

\* shutdown(fd, SHUT_RD)
KShutdownRd(k, fd) ==
    [k EXCEPT ![fd] = [@ EXCEPT !.rdShut = @ + 1, !.stale = @ \/ k[fd].state # "open"]]

\* shutdown(fd, SHUT_WR)
KShutdownWr(k, fd) ==
    [k EXCEPT ![fd] = [@ EXCEPT !.wrShut = @ + 1, !.stale = @ \/ k[fd].state # "open"]]

\* read / write / recv / send on fd
KIo(k, fd) == [k EXCEPT ![fd].stale = @ \/ k[fd].state # "open"]

\* bind(s, &sa, sa_len): an abstract or empty address binds; a pathname address
\* fails when something sits at the path, else it creates the socket file
RawBind(files, sk, sa) ==
    IF IsAbstractAddr(sa) \/ KernelPath(sa) = <<>>
    THEN [ok |-> TRUE, socks |-> sk]
    ELSE IF KernelPath(sa) \in files \cup sk
         THEN [ok |-> FALSE, socks |-> sk]
         ELSE [ok |-> TRUE, socks |-> sk \cup {KernelPath(sa)}]

\* the bind inside UnixListener::bind / UnixDatagram::bind, given a path
LibBind(files, sk, addr) ==
    IF addr # <<>> /\ addr[1] = NUL
    THEN [ok |-> TRUE, socks |-> sk]
    ELSE IF addr \in files \cup sk
         THEN [ok |-> FALSE, socks |-> sk]
         ELSE [ok |-> TRUE, socks |-> sk \cup {addr}]

\* ---- the raw-syscall builders -------------------------------------------

\* what a builder leaves behind: the kernel, the descriptor (0 is None), the
\* filesystem, the addresses it passed down, and the stage that failed
Built(k, fd, files, sk, b, c, u, failed) ==
    [k |-> k, fd |-> fd, files |-> files, socks |-> sk,
     bind |-> b, connect |-> c, unlinked |-> u, failed |-> failed]

FailNoClose(k, s) == k

\* if ret == -1 { close(s); return None; }
FailClose(k, s) == KClose(k, s)

\* unlink(&sa.sun_path): best effort, the result is not looked at
Unlink(set, u) == IF u = <<>> THEN set ELSE set \ {u[1]}

\* dgram_peer_workaround::getfd; fail names the stage made to fail, or "none"
GetfdDgram(k, files, sk, bindaddr, connectaddr, fail) ==
    LET s  == FreshFd(k)
        k1 == KSocket(k, s)
        ba == DgramBindAddr(bindaddr)
        b  == RawBind(files, sk, ba)
        ca == DgramConnectAddr(connectaddr)
    IN  IF fail = "socket"
        THEN Built(k, 0, files, sk, <<>>, <<>>, <<>>, "socket")
        ELSE IF ~b.ok \/ fail = "bind"
        THEN Built(FailClose(k1, s), 0, files, sk, <<AddrBytes(ba)>>, <<>>, <<>>,
                   IF b.ok THEN "bind" ELSE "inuse")
        ELSE IF fail = "connect"
        THEN Built(FailClose(k1, s), 0, files, b.socks, <<AddrBytes(ba)>>,
                   <<AddrBytes(ca)>>, <<>>, "connect")
        ELSE Built(k1, s, files, b.socks, <<AddrBytes(ba)>>, <<AddrBytes(ca)>>, <<>>, "none")

\* seqpacket_connect_peer::getfd
GetfdSeqConnect(k, files, sk, addr, fail) ==
    LET s  == FreshFd(k)
        k1 == KSocket(k, s)
        ca == SeqConnectAddr(addr)
    IN  IF fail = "socket"
        THEN Built(k, 0, files, sk, <<>>, <<>>, <<>>, "socket")
        ELSE IF fail = "connect"
        THEN Built(FailClose(k1, s), 0, files, sk, <<>>, <<AddrBytes(ca)>>, <<>>, "connect")
        ELSE Built(k1, s, files, sk, <<>>, <<AddrBytes(ca)>>, <<>>, "none")

\* seqpacket_listen_peer::getfd
GetfdSeqListen(k, files, sk, addr, unlink, fail) ==
    LET s  == FreshFd(k)
        k1 == KSocket(k, s)
        sa == SeqListenAddr(addr, unlink)
        f1 == Unlink(files, sa.unlinked)
        s1 == Unlink(sk, sa.unlinked)
        b  == RawBind(f1, s1, sa)
    IN  IF fail = "socket"
        THEN Built(k, 0, files, sk, <<>>, <<>>, <<>>, "socket")
        ELSE IF ~b.ok \/ fail = "bind"
        THEN Built(FailClose(k1, s), 0, f1, s1, <<AddrBytes(sa)>>, <<>>, sa.unlinked,
                   IF b.ok THEN "bind" ELSE "inuse")
        ELSE IF fail = "listen"
        THEN Built(FailClose(k1, s), 0, f1, b.socks, <<AddrBytes(sa)>>, <<>>, sa.unlinked,
                   "listen")
        ELSE Built(k1, s, f1, b.socks, <<AddrBytes(sa)>>, <<>>, sa.unlinked, "none")

\* ---- shared handles and peers -------------------------------------------

RcDropEager(k, r, fd) == [k |-> KClose(k, fd), rc |-> [r EXCEPT ![fd] = @ - 1]]

\* a clone of the Rc goes away; the socket it holds is closed with the last one
RcDrop(k, r, fd) ==
    [k  |-> IF r[fd] = 1 THEN KClose(k, fd) ELSE k,
     rc |-> [r EXCEPT ![fd] = @ - 1]]

DropShutsOwnSide(k, fd, i_am_read_part) ==
    IF i_am_read_part THEN KShutdownRd(k, fd) ELSE KShutdownWr(k, fd)

\* impl Drop for MyUnixStream
MyUnixStream_drop(k, fd, i_am_read_part) ==
    IF i_am_read_part THEN KShutdownRd(k, fd) ELSE k

\* Peer::new(MyUnixStream(x.clone(), true), MyUnixStream(x.clone(), false)), or
\* Peer::new(h1, h2) of a datagram handle; held says who owns it
NewPeer(fd, kind, held) ==
    [fd |-> fd, kind |-> kind, rd |-> TRUE, wr |-> TRUE, held |-> held, shutdowns |-> 0]

\* let x = Rc::new(x); two clones go into the peer and x goes out of scope; for a
\* datagram handle h1 = Rc::new(..), h2 = h1.clone(): two owners either way
SharedCount == (1 + 2) - 1

\* one half of peer p is dropped: its Drop impl, then its Rc field
HalfDrop(k, r, p, h) ==
    RcDrop(IF p.kind = "stream" THEN MyUnixStream_drop(k, p.fd, h = "rd") ELSE k, r, p.fd)

\* a Peer is dropped whole: the read side first, then the write side
PeerDrop(k, r, p) ==
    LET d1 == IF p.rd THEN HalfDrop(k, r, p, "rd") ELSE [k |-> k, rc |-> r]
    IN  IF p.wr THEN HalfDrop(d1.k, d1.rc, p, "wr") ELSE d1

AdoptFailLeaks(k, fd) == k

\* from_raw_fd(fd) makes an owner of fd, from_datagram / from_stream /
\* from_listener take it by value: on failure it is dropped there, which closes fd
AdoptFail(k, fd) == KClose(k, fd)

\* ---- listener streams ---------------------------------------------------

\* bound.incoming().map(..).map_err(..)
Incoming(fd) ==
    [kind |-> "incoming", fd |-> fd, ended |-> FALSE, errItems |-> 0, accepts |-> 0,
     dropped |-> FALSE]

\* peer_err_s(e): a stream of the one failure
peer_err_s ==
    [kind |-> "err", fd |-> 0, ended |-> FALSE, errItems |-> 0, accepts |-> 0,
     dropped |-> FALSE]

NoStream ==
    [kind |-> "none", fd |-> 0, ended |-> FALSE, errItems |-> 0, accepts |-> 0,
     dropped |-> FALSE]

ListenResultUnchecked(ok, fd) == Incoming(fd)

\* match .. { Ok(x) => x, Err(e) => return peer_err_s(e) }, then the incoming stream
ListenResult(ok, fd) == IF ok THEN Incoming(fd) ELSE peer_err_s

IncomingPollEndsOnErr(st, r) ==
    [st EXCEPT !.accepts = @ + 1,
               !.errItems = IF r = "ok" THEN @ ELSE @ + 1,
               !.ended = (r # "ok")]

\* one poll of the incoming stream that finds a connection: accept gives a peer
\* (r = "ok") or an error item; the stream goes on either way
IncomingPoll(st, r) ==
    [st EXCEPT !.accepts = @ + 1, !.errItems = IF r = "ok" THEN @ ELSE @ + 1]

\* ---- specifiers ---------------------------------------------------------

RECURSIVE Split(_)
\* just_arg.split(":").collect()
Split(s) ==
    IF \A i \in DOMAIN s : s[i] # COLON THEN <<s>>
    ELSE LET c == CHOOSE i \in DOMAIN s : s[i] = COLON /\ \A j \in 1..(i - 1) : s[j] # COLON
         IN  <<SubSeq(s, 1, c - 1)>> \o Split(SubSeq(s, c + 1, Len(s)))

\* specifier_class!(.. target = T, prefixes = [..], arg_handling = into ..)
IntoTarget(scheme) ==
    CASE scheme = "unix:" -> "UnixConnect"
      [] scheme = "unix-listen:" -> "UnixListen"
      [] scheme = "abstract:" -> "AbstractConnect"
      [] scheme = "abstract-listen:" -> "AbstractListen"
      [] scheme = "seqpacket:" -> "SeqpacketConnect"
      [] scheme = "seqpacket-listen:" -> "SeqpacketListen"

IntoSchemes ==
    {"unix:", "unix-listen:", "abstract:", "abstract-listen:", "seqpacket:", "seqpacket-listen:"}

NoSpecifier == [type |-> "none", a |-> <<>>, b |-> <<>>]

NoCalls == [bind |-> <<>>, connect |-> <<>>, unlinked |-> <<>>, failed |-> "none", fd |-> 0]

\* ---- the classes: from the command line to a specifier ------------------

WrongSplitsFewer(splits) == Len(splits) < 2

\* if splits.len() != 2 { Err("Expected two colon-separted ..")?; }
WrongSplits(splits) == Len(splits) # 2

\* arg_handling = into: the argument becomes the specifier's path or name
Class_construct_into ==
    /\ pc = "cmdline"
    /\ cmd.scheme \in IntoSchemes
    /\ specifier' = [type |-> IntoTarget(cmd.scheme), a |-> cmd.arg, b |-> <<>>]
    /\ pc' = "specifier"
    /\ UNCHANGED <<cmd, fs, socks, kern, rc, peers, stream, pending, arrived, calls, input, enc>>

\* UnixDgramClass::construct
UnixDgramClass_construct ==
    /\ pc = "cmdline"
    /\ cmd.scheme = "unix-dgram:"
    /\ LET splits == Split(cmd.arg)
       IN  IF WrongSplits(splits)
           THEN /\ pc' = "parse_error"
                /\ specifier' = specifier
           ELSE /\ pc' = "specifier"
                /\ specifier' = [type |-> "UnixDgram", a |-> splits[1], b |-> splits[2]]
    /\ UNCHANGED <<cmd, fs, socks, kern, rc, peers, stream, pending, arrived, calls, input, enc>>

\* AbstractDgramClass::construct
AbstractDgramClass_construct ==
    /\ pc = "cmdline"
    /\ cmd.scheme = "abstract-dgram:"
    /\ LET splits == Split(cmd.arg)
       IN  IF WrongSplits(splits)
           THEN /\ pc' = "parse_error"
                /\ specifier' = specifier
           ELSE /\ pc' = "specifier"
                /\ specifier' = [type |-> "UnixDgram", a |-> splits[1], b |-> splits[2]]
    /\ UNCHANGED <<cmd, fs, socks, kern, rc, peers, stream, pending, arrived, calls, input, enc>>

\* ---- the peer constructors ----------------------------------------------

\* a one-shot future that holds Ok(peer) over descriptor fd
FutureOk(k, fd, kind) ==
    /\ kern' = k
    /\ rc' = [rc EXCEPT ![fd] = SharedCount]
    /\ peers' = <<NewPeer(fd, kind, "future")>>
    /\ pc' = "future"

\* a one-shot future that holds Err(..)
FutureErr(k) ==
    /\ kern' = k
    /\ rc' = rc
    /\ peers' = <<>>
    /\ pc' = "future"

unix_connect_peer(addr) ==
    \E ok \in BOOLEAN :
        LET s == FreshFd(kern)
        IN  /\ calls' = [bind |-> <<>>, connect |-> <<addr>>, unlinked |-> <<>>,
                         failed |-> IF ok THEN "none" ELSE "connect",
                         fd |-> IF ok THEN s ELSE 0]
            /\ IF ok THEN FutureOk(KSocket(kern, s), s, "stream") ELSE FutureErr(kern)
            /\ UNCHANGED <<cmd, specifier, fs, socks, stream, pending, arrived, input, enc>>

unix_listen_peer(addr, unlink_unix_socket) ==
    \E fail \in {"none", "bind"} :
        LET u  == IF unlink_unix_socket THEN <<addr>> ELSE <<>>
            f1 == Unlink(fs, u)
            s1 == Unlink(socks, u)
            b  == LibBind(f1, s1, addr)
            ok == b.ok /\ fail = "none"
            s  == FreshFd(kern)
        IN  /\ fs' = f1
            /\ socks' = IF ok THEN b.socks ELSE s1
            /\ kern' = IF ok THEN KSocket(kern, s) ELSE kern
            /\ stream' = ListenResult(ok, s)
            /\ calls' = [bind |-> <<addr>>, connect |-> <<>>, unlinked |-> u,
                         failed |-> IF ok THEN "none" ELSE IF b.ok THEN "bind" ELSE "inuse",
                         fd |-> IF ok THEN s ELSE 0]
            /\ pc' = "stream"
            /\ UNCHANGED <<cmd, specifier, rc, peers, pending, arrived, input, enc>>

dgram_peer(bindaddr, connectaddr) ==
    \E fail \in {"none", "bind", "connect"} :
        LET s  == FreshFd(kern)
            k1 == KSocket(kern, s)
            b  == LibBind(fs, socks, bindaddr)
        IN  /\ IF ~b.ok \/ fail = "bind"
               THEN /\ FutureErr(kern)
                    /\ socks' = socks
                    /\ calls' = [bind |-> <<bindaddr>>, connect |-> <<>>, unlinked |-> <<>>,
                                 failed |-> IF b.ok THEN "bind" ELSE "inuse", fd |-> 0]
               ELSE IF fail = "connect"
               THEN /\ FutureErr(KClose(k1, s))
                    /\ socks' = b.socks
                    /\ calls' = [bind |-> <<bindaddr>>, connect |-> <<connectaddr>>,
                                 unlinked |-> <<>>, failed |-> "connect", fd |-> 0]
               ELSE /\ FutureOk(k1, s, "dgram")
                    /\ socks' = b.socks
                    /\ calls' = [bind |-> <<bindaddr>>, connect |-> <<connectaddr>>,
                                 unlinked |-> <<>>, failed |-> "none", fd |-> s]
            /\ UNCHANGED <<cmd, specifier, fs, stream, pending, arrived, input, enc>>

\* getpeer of dgram_peer_workaround and of seqpacket_connect_peer: adopt the
\* descriptor of g into the runtime and make the peer, or fail
getpeer(g, fail, kind) ==
    /\ IF g.fd = 0
       THEN FutureErr(g.k)
       ELSE IF fail = "adopt"
       THEN FutureErr(AdoptFail(g.k, g.fd))
       ELSE FutureOk(g.k, g.fd, kind)
    /\ fs' = g.files
    /\ socks' = g.socks
    /\ calls' = [bind |-> g.bind, connect |-> g.connect, unlinked |-> g.unlinked,
                 failed |-> IF g.fd # 0 /\ fail = "adopt" THEN "adopt" ELSE g.failed,
                 fd |-> g.fd]
    /\ UNCHANGED <<cmd, specifier, stream, pending, arrived, input, enc>>

dgram_peer_workaround(bindaddr, connectaddr) ==
    \E fail \in {"none", "socket", "bind", "connect", "adopt"} :
        getpeer(GetfdDgram(kern, fs, socks, bindaddr, connectaddr, fail), fail, "dgram")

seqpacket_connect_peer(addr) ==
    \E fail \in {"none", "socket", "connect", "adopt"} :
        getpeer(GetfdSeqConnect(kern, fs, socks, addr, fail), fail, "stream")

seqpacket_listen_peer(addr, unlink_unix_socket) ==
    \E fail \in {"none", "socket", "bind", "listen", "adopt"} :
        LET g  == GetfdSeqListen(kern, fs, socks, addr, unlink_unix_socket, fail)
            ok == g.fd # 0 /\ fail # "adopt"
        IN  /\ kern' = IF g.fd # 0 /\ fail = "adopt" THEN AdoptFail(g.k, g.fd) ELSE g.k
            /\ stream' = ListenResult(ok, g.fd)
            /\ fs' = g.files
            /\ socks' = g.socks
            /\ calls' = [bind |-> g.bind, connect |-> <<>>, unlinked |-> g.unlinked,
                         failed |-> IF g.fd # 0 /\ fail = "adopt" THEN "adopt" ELSE g.failed,
                         fd |-> g.fd]
            /\ pc' = "stream"
            /\ UNCHANGED <<cmd, specifier, rc, peers, pending, arrived, input, enc>>

\* ---- Specifier::construct, one per specifier type -----------------------

UnixConnect_construct ==
    pc = "specifier" /\ specifier.type = "UnixConnect" /\ unix_connect_peer(specifier.a)

UnixListen_construct ==
    pc = "specifier" /\ specifier.type = "UnixListen"
    /\ unix_listen_peer(specifier.a, cmd.unlink)

UnixDgram_construct ==
    pc = "specifier" /\ specifier.type = "UnixDgram" /\ dgram_peer(specifier.a, specifier.b)

AbstractConnect_construct ==
    pc = "specifier" /\ specifier.type = "AbstractConnect"
    /\ unix_connect_peer(to_abstract(specifier.a))

\* Rc::new(Default::default()): the options are not the program's, unlink is off
AbstractListen_construct ==
    pc = "specifier" /\ specifier.type = "AbstractListen"
    /\ unix_listen_peer(to_abstract(specifier.a), FALSE)

AbstractDgram_construct ==
    pc = "specifier" /\ specifier.type = "AbstractDgram"
    /\ IF cmd.workaround1
       THEN dgram_peer_workaround(to_abstract(specifier.a), to_abstract(specifier.b))
       ELSE dgram_peer(to_abstract(specifier.a), to_abstract(specifier.b))

SeqpacketConnect_construct ==
    pc = "specifier" /\ specifier.type = "SeqpacketConnect"
    /\ seqpacket_connect_peer(specifier.a)

SeqpacketListen_construct ==
    pc = "specifier" /\ specifier.type = "SeqpacketListen"
    /\ seqpacket_listen_peer(specifier.a, cmd.unlink)

\* ---- the consumer of a one-shot future ----------------------------------

\* the future is polled: its result, a peer or a failure, passes to the consumer
Resolve ==
    /\ pc = "future"
    /\ pc' = "resolved"
    /\ peers' = [i \in DOMAIN peers |-> [peers[i] EXCEPT !.held = "consumer"]]
    /\ UNCHANGED <<cmd, specifier, fs, socks, kern, rc, stream, pending, arrived, calls, input, enc>>

\* the future is dropped unpolled, and the peer it holds with it
DropFuture ==
    /\ pc = "future"
    /\ pc' = "dropped"
    /\ IF peers = <<>>
       THEN UNCHANGED <<kern, rc, peers>>
       ELSE LET d == PeerDrop(kern, rc, peers[1])
            IN  /\ kern' = d.k
                /\ rc' = d.rc
                /\ peers' = <<[peers[1] EXCEPT !.rd = FALSE, !.wr = FALSE]>>
    /\ UNCHANGED <<cmd, specifier, fs, socks, stream, pending, arrived, calls, input, enc>>

\* ---- the consumer of a listener's peer stream ---------------------------

\* a client connects to the listening socket
Arrive ==
    /\ pc = "stream"
    /\ stream.kind = "incoming"
    /\ ~stream.dropped
    /\ arrived < MaxConn
    /\ arrived' = arrived + 1
    /\ pending' = pending + 1
    /\ UNCHANGED <<cmd, pc, specifier, fs, socks, kern, rc, peers, stream, calls, input, enc>>

\* the stream is polled with a connection waiting: accept, then the map closure
\* makes the peer; an accept error either leaves the connection waiting or loses it
PollIncoming ==
    /\ pc = "stream"
    /\ stream.kind = "incoming"
    /\ ~stream.dropped
    /\ ~stream.ended
    /\ pending > 0
    /\ \E r \in {"ok", "err_keep", "err_lose"} :
        /\ r # "ok" => stream.errItems < MaxAcceptErr
        /\ stream' = IncomingPoll(stream, r)
        /\ pending' = IF r = "err_keep" THEN pending ELSE pending - 1
        /\ IF r = "ok"
           THEN LET s == FreshFd(kern)
                IN  /\ kern' = KSocket(KIo(kern, stream.fd), s)
                    /\ rc' = [rc EXCEPT ![s] = SharedCount]
                    /\ peers' = Append(peers, NewPeer(s, "stream", "consumer"))
           ELSE /\ kern' = KIo(kern, stream.fd)
                /\ UNCHANGED <<rc, peers>>
    /\ UNCHANGED <<cmd, pc, specifier, fs, socks, arrived, calls, input, enc>>

\* the stream of peer_err_s is polled: the failure first, the end after it
PollErrStream ==
    /\ pc = "stream"
    /\ stream.kind = "err"
    /\ ~stream.dropped
    /\ ~stream.ended
    /\ stream' = IF stream.errItems = 0
                 THEN [stream EXCEPT !.errItems = 1]
                 ELSE [stream EXCEPT !.ended = TRUE]
    /\ UNCHANGED <<cmd, pc, specifier, fs, socks, kern, rc, peers, pending, arrived, calls, input, enc>>

\* the stream is dropped, and the listener it holds with it; the peers it gave
\* away stay with the consumer
DropStream ==
    /\ pc = "stream"
    /\ ~stream.dropped
    /\ stream' = [stream EXCEPT !.dropped = TRUE]
    /\ kern' = IF stream.kind = "incoming" THEN KClose(kern, stream.fd) ELSE kern
    /\ pending' = 0
    /\ UNCHANGED <<cmd, pc, specifier, fs, socks, rc, peers, arrived, calls, input, enc>>

\* ---- the consumer of a peer ---------------------------------------------

Halves == {"rd", "wr"}

\* half h of peer i is in the consumer's hands and not dropped
Usable(i, h) == peers[i].held = "consumer" /\ peers[i][h]

\* AsyncWrite::shutdown of MyUnixStream, called on either half
MyUnixStream_shutdown(i, h) ==
    /\ Usable(i, h)
    /\ peers[i].kind = "stream"
    /\ peers[i].shutdowns < MaxShutdown
    /\ kern' = KShutdownWr(kern, peers[i].fd)
    /\ peers' = [peers EXCEPT ![i].shutdowns = @ + 1]
    /\ UNCHANGED <<cmd, pc, specifier, fs, socks, rc, stream, pending, arrived, calls, input, enc>>

\* AsyncWrite::shutdown of DgramPeerHandle: Ok(().into())
DgramPeerHandle_shutdown(i, h) ==
    /\ Usable(i, h)
    /\ peers[i].kind = "dgram"
    /\ peers[i].shutdowns < MaxShutdown
    /\ peers' = [peers EXCEPT ![i].shutdowns = @ + 1]
    /\ UNCHANGED <<cmd, pc, specifier, fs, socks, kern, rc, stream, pending, arrived, calls, input, enc>>

\* Read::read / Write::write of either wrapper: delegated to the shared socket
Half_io(i, h) ==
    /\ Usable(i, h)
    /\ kern' = KIo(kern, peers[i].fd)
    /\ UNCHANGED <<cmd, pc, specifier, fs, socks, rc, peers, stream, pending, arrived, calls, input, enc>>

\* half h of peer i is dropped
Half_drop(i, h) ==
    /\ Usable(i, h)
    /\ LET d == HalfDrop(kern, rc, peers[i], h)
       IN  /\ kern' = d.k
           /\ rc' = d.rc
    /\ peers' = [peers EXCEPT ![i][h] = FALSE]
    /\ UNCHANGED <<cmd, pc, specifier, fs, socks, stream, pending, arrived, calls, input, enc>>

\* ---- the codec on its own -----------------------------------------------

NoEnc == [op |-> "none", sun_path |-> <<>>, sa_len |-> 0, unlinked |-> <<>>]

Encoded(op, sa) ==
    [op |-> op, sun_path |-> sa.sun_path, sa_len |-> sa.sa_len, unlinked |-> sa.unlinked]

EncodeDgramBind ==
    /\ pc = "codec"
    /\ enc' = Encoded("dgram_bind", DgramBindAddr(input))
    /\ UNCHANGED <<cmd, pc, specifier, fs, socks, kern, rc, peers, stream, pending, arrived, calls, input>>

EncodeDgramConnect ==
    /\ pc = "codec"
    /\ enc' = Encoded("dgram_connect", DgramConnectAddr(input))
    /\ UNCHANGED <<cmd, pc, specifier, fs, socks, kern, rc, peers, stream, pending, arrived, calls, input>>

EncodeSeqConnect ==
    /\ pc = "codec"
    /\ enc' = Encoded("seq_connect", SeqConnectAddr(input))
    /\ UNCHANGED <<cmd, pc, specifier, fs, socks, kern, rc, peers, stream, pending, arrived, calls, input>>

EncodeSeqListen ==
    /\ pc = "codec"
    /\ \E unlink \in BOOLEAN :
        enc' = Encoded(IF unlink THEN "seq_listen_unlink" ELSE "seq_listen",
                       SeqListenAddr(input, unlink))
    /\ UNCHANGED <<cmd, pc, specifier, fs, socks, kern, rc, peers, stream, pending, arrived, calls, input>>

\* ---- invocations --------------------------------------------------------

Cmd(scheme, arg, unlink, workaround1) ==
    [scheme |-> scheme, arg |-> arg, unlink |-> unlink, workaround1 |-> workaround1]

Join2(a, b) == a \o <<COLON>> \o b

\* the parts of a datagram argument
PartNames == {<<97>>, <<98, 99>>}

\* one, two, three and four colon-separated parts, and the empty argument
DgramArgs ==
    PartNames \cup {Join2(a, b) : a \in PartNames, b \in PartNames}
              \cup {Join2(a, Join2(b, <<97>>)) : a \in PartNames, b \in PartNames}
              \cup {<<>>, Join2(<<97>>, Join2(<<98, 99>>, Join2(<<97>>, <<97>>)))}

\* names the managed socket library is given as they are
ShortNames == {n \in Names : 1 <= Len(n) /\ Len(n) <= MaxShort}

LibCmds ==
    {Cmd(s, a, u, FALSE) : s \in {"unix:", "abstract:"}, a \in ShortNames, u \in {FALSE}}
    \cup {Cmd(s, a, u, FALSE) : s \in {"unix-listen:", "abstract-listen:"},
                                a \in ShortNames, u \in BOOLEAN}

DgramCmds ==
    {Cmd(s, a, FALSE, w) : s \in {"unix-dgram:", "abstract-dgram:"}, a \in DgramArgs,
                           w \in BOOLEAN}

SeqCmds(names) ==
    {Cmd("seqpacket:", a, FALSE, FALSE) : a \in names}
    \cup {Cmd("seqpacket-listen:", a, u, FALSE) : a \in names, u \in BOOLEAN}

\* the paths at which a file may sit before the invocation
PathsOf(c) ==
    CASE c.scheme = "unix-listen:" -> {c.arg}
      [] c.scheme = "seqpacket-listen:" /\ c.arg # <<>> /\ c.arg[1] # AT ->
            {c.arg, Take(c.arg, SunPathLen), Take(c.arg, SunPathLen - 1)}
      [] c.scheme \in {"unix-dgram:", "abstract-dgram:"} -> {Split(c.arg)[1]}
      [] OTHER -> {}

Idle ==
    /\ socks = {}
    /\ kern = [f \in Fds |-> NoSock]
    /\ rc = [f \in Fds |-> 0]
    /\ peers = <<>>
    /\ stream = NoStream
    /\ pending = 0
    /\ arrived = 0
    /\ calls = NoCalls
    /\ enc = NoEnc

\* an invocation and the filesystem it meets
Invocation(c, files) ==
    [scheme |-> c.scheme, arg |-> c.arg, unlink |-> c.unlink,
     workaround1 |-> c.workaround1, files |-> files]

\* an invocation from the command line
InitCmd(cmds, allFiles) ==
    /\ \E c \in cmds :
         \E f \in (IF allFiles THEN SUBSET PathsOf(c) ELSE {{}, PathsOf(c)}) :
            /\ cmd = Invocation(c, f)
            /\ fs = f
    /\ pc = "cmdline"
    /\ specifier = NoSpecifier
    /\ input = <<>>
    /\ Idle

\* pub struct AbstractDgram(pub String, pub String), built by a caller
InitApi ==
    /\ cmd \in {Invocation(Cmd("(api)", <<>>, FALSE, w), {}) : w \in BOOLEAN}
    /\ pc = "specifier"
    /\ specifier \in {[type |-> "AbstractDgram", a |-> a, b |-> b] :
                        a \in PartNames, b \in PartNames}
    /\ fs = {}
    /\ input = <<>>
    /\ Idle

\* names of the life-cycle runs: the short ones and one that fills the buffer
LifeNames == {n \in Names : Len(n) <= MaxShort \/ Len(n) = SunPathLen}

Init == InitCmd(LibCmds \cup DgramCmds \cup SeqCmds(LifeNames), FALSE) \/ InitApi

InitBuild == InitCmd(LibCmds \cup DgramCmds \cup SeqCmds(Names), TRUE) \/ InitApi

InitListen ==
    InitCmd({c \in LibCmds \cup SeqCmds(LifeNames) :
                c.scheme \in {"unix-listen:", "abstract-listen:", "seqpacket-listen:"}}, FALSE)

InitCodec ==
    /\ cmd = Invocation(Cmd("(codec)", <<>>, FALSE, FALSE), {})
    /\ pc = "codec"
    /\ specifier = NoSpecifier
    /\ fs = {}
    /\ input \in Names \cup {to_abstract(n) : n \in Names}
    /\ Idle

\* ---- next-state relations -----------------------------------------------

NextBuild ==
    \/ Class_construct_into
    \/ UnixDgramClass_construct
    \/ AbstractDgramClass_construct
    \/ UnixConnect_construct
    \/ UnixListen_construct
    \/ UnixDgram_construct
    \/ AbstractConnect_construct
    \/ AbstractListen_construct
    \/ AbstractDgram_construct
    \/ SeqpacketConnect_construct
    \/ SeqpacketListen_construct

NextStream ==
    \/ Arrive
    \/ PollIncoming
    \/ PollErrStream
    \/ DropStream

NextStreamPeer ==
    \/ \E i \in DOMAIN peers, h \in Halves : MyUnixStream_shutdown(i, h)
    \/ \E i \in DOMAIN peers, h \in Halves : Half_io(i, h)
    \/ \E i \in DOMAIN peers, h \in Halves : Half_drop(i, h)

NextListen ==
    \/ Class_construct_into
    \/ UnixListen_construct
    \/ AbstractListen_construct
    \/ SeqpacketListen_construct
    \/ NextStream
    \/ \E i \in DOMAIN peers, h \in Halves : Half_drop(i, h)

Next ==
    \/ NextBuild
    \/ Resolve
    \/ DropFuture
    \/ NextStream
    \/ NextStreamPeer
    \/ \E i \in DOMAIN peers, h \in Halves : DgramPeerHandle_shutdown(i, h)

NextCodec ==
    \/ EncodeDgramBind
    \/ EncodeDgramConnect
    \/ EncodeSeqConnect
    \/ EncodeSeqListen

\* the whole life of an invocation
Spec == Init /\ [][Next]_vars

\* construction alone, over every name and every filesystem
SpecBuild == InitBuild /\ [][NextBuild]_vars

\* a listener, its stream and the peers it yields, which the consumer drops half
\* by half; the task that holds the stream is woken and polls it whenever a
\* connection waits
SpecListen == InitListen /\ [][NextListen]_vars /\ WF_vars(PollIncoming)

\* the encoders alone
SpecCodec == InitCodec /\ [][NextCodec]_vars

\* ---- what the claims speak of -------------------------------------------

\* a raw-syscall builder has run: the datagram workaround or a seqpacket builder
RawBuilt ==
    /\ pc \in {"future", "resolved", "dropped", "stream"}
    /\ \/ specifier.type \in {"SeqpacketConnect", "SeqpacketListen"}
       \/ specifier.type = "AbstractDgram" /\ cmd.workaround1

OpenFds == {f \in Fds : kern[f].state = "open"}

ClosedFds == {f \in Fds : kern[f].state = "closed"}

\* the stages at which a builder's syscall can fail
BuildStages == {"socket", "bind", "inuse", "connect", "listen"}

\* C1: when a raw-syscall builder fails at any stage (socket, bind, connect,
\* listen) it returns None, the descriptor socket() opened, if any, has been
\* closed exactly once and none is left open; a descriptor is returned only when
\* no stage failed, and it is open when the builder returns it.
C1_NoLeakOnBuildFailure ==
    RawBuilt /\ pc \in {"future", "stream"} =>
        /\ calls.failed \in BuildStages =>
              /\ calls.fd = 0
              /\ OpenFds = {}
              /\ \A f \in Fds : kern[f].closes <= 1 /\ ~kern[f].stale
              /\ Cardinality(ClosedFds) = IF calls.failed = "socket" THEN 0 ELSE 1
        /\ calls.fd # 0 =>
              /\ calls.failed \in {"none", "adopt"}
              /\ calls.failed = "none" =>
                    kern[calls.fd].state = "open" /\ kern[calls.fd].closes = 0

\* a builder failed after socket() had succeeded, with its descriptor closed
C1_Witness ==
    /\ RawBuilt
    /\ calls.failed \in {"bind", "inuse", "connect", "listen"}
    /\ calls.fd = 0
    /\ Cardinality(ClosedFds) = 1

StreamPeers == {i \in DOMAIN peers : peers[i].kind = "stream"}

\* C2 as stated: dropping the read half shuts down the read direction only,
\* dropping the write half shuts down nothing, and the explicit shutdown calls
\* of a peer shut down the write direction with no more than one shutdown-write
\* call on the socket.
C2_ShutdownWriteAtMostOnce ==
    \A i \in StreamPeers :
        /\ kern[peers[i].fd].rdShut = (IF peers[i].rd THEN 0 ELSE 1)
        /\ peers[i].shutdowns = 0 => kern[peers[i].fd].wrShut = 0
        /\ peers[i].shutdowns > 0 => kern[peers[i].fd].wrShut = 1

\* C2, amended: dropping the read half issues one shutdown of the read direction
\* and none of the write direction, dropping the write half issues no shutdown,
\* and every call of the explicit shutdown operation, from either half, issues
\* one shutdown of the write direction: k calls issue k of them.
C2_HalfCloseAsymmetry ==
    \A i \in StreamPeers :
        /\ kern[peers[i].fd].rdShut = (IF peers[i].rd THEN 0 ELSE 1)
        /\ kern[peers[i].fd].wrShut = peers[i].shutdowns

\* a stream peer whose halves are both dropped after shutdown was called twice
C2_Witness ==
    \E i \in StreamPeers :
        /\ ~peers[i].rd
        /\ ~peers[i].wr
        /\ peers[i].shutdowns >= 2
        /\ kern[peers[i].fd].wrShut >= 2

\* C3: for every peer, stream or datagram, the socket its two halves share is
\* closed at most once, it is closed exactly when both halves have been dropped,
\* and no read, write, shutdown or close was issued on it once closed.
C3_ClosedOnceByLastHalf ==
    \A i \in DOMAIN peers :
        LET k == kern[peers[i].fd]
        IN  /\ k.closes <= 1
            /\ ~k.stale
            /\ (peers[i].rd \/ peers[i].wr) => k.state = "open" /\ k.closes = 0
            /\ (~peers[i].rd /\ ~peers[i].wr) => k.state = "closed" /\ k.closes = 1
            /\ rc[peers[i].fd] = Cardinality({h \in Halves : peers[i][h]})

\* some peer with both halves dropped and its socket closed once, and some peer
\* with the write half dropped first and its socket still open
C3_Witness ==
    /\ \E i \in DOMAIN peers :
          ~peers[i].rd /\ ~peers[i].wr /\ kern[peers[i].fd].closes = 1
    /\ \E i \in DOMAIN peers :
          ~peers[i].wr /\ peers[i].rd /\ kern[peers[i].fd].state = "open"

\* the holder of the builder's descriptor is gone: adoption failed, the future
\* was dropped, the listener's stream was dropped, or both halves of the peer
\* made over it were dropped
HolderGone ==
    \/ calls.failed = "adopt"
    \/ pc = "dropped"
    \/ pc = "stream" /\ stream.dropped
    \/ pc = "resolved" /\ peers # <<>> /\ ~peers[1].rd /\ ~peers[1].wr

\* C4: a descriptor a raw-syscall builder returned is closed exactly once when
\* what holds it is gone (adoption into the runtime failed, the one-shot future
\* or the listener stream was dropped, the peer was dropped), it is open for as
\* long as something holds it, and it is never closed twice nor used once closed.
C4_BuiltDescriptorClosedOnce ==
    RawBuilt /\ calls.fd # 0 =>
        LET k == kern[calls.fd]
        IN  /\ k.closes <= 1
            /\ ~k.stale
            /\ HolderGone => k.state = "closed" /\ k.closes = 1
            /\ ~HolderGone => k.state = "open" /\ k.closes = 0
            /\ pc \in {"future", "resolved"} /\ peers # <<>> => peers[1].fd = calls.fd

\* adoption of a built descriptor failed and the descriptor is closed
C4_Witness ==
    /\ RawBuilt
    /\ calls.fd # 0
    /\ calls.failed = "adopt"
    /\ kern[calls.fd].state = "closed"
    /\ kern[calls.fd].closes = 1

\* the listener was created and its stream has not been dropped
Listening == pc = "stream" /\ calls.failed = "none" /\ ~stream.dropped

\* C5: the stream of a listener that was created never ends; every peer it has
\* yielded has a socket and a shared handle of its own, no connection yields two
\* peers; and once the per-accept errors have stopped, a connection that waits is
\* yielded as a further peer of the same stream, unless the consumer drops it.
C5_StreamLiveness ==
    /\ [](pc = "stream" /\ calls.failed = "none" =>
            /\ stream.kind = "incoming"
            /\ ~stream.ended
            /\ stream.accepts = Len(peers) + stream.errItems
            /\ Len(peers) + pending <= arrived
            /\ \A i \in DOMAIN peers :
                  /\ peers[i].fd # stream.fd
                  /\ kern[peers[i].fd].state # "unused"
                  /\ \A j \in DOMAIN peers : i # j => peers[i].fd # peers[j].fd)
    /\ \A n \in 0..MaxConn :
          (Listening /\ pending > 0 /\ stream.errItems = MaxAcceptErr /\ Len(peers) = n)
              ~> (Len(peers) > n \/ stream.dropped)

\* a listener has yielded a peer, met an accept error and yielded a further peer
C5_Witness ==
    /\ Listening
    /\ stream.errItems >= 1
    /\ Len(peers) >= 2

\* the listener could not be created
ListenFailed == pc = "stream" /\ calls.failed # "none"

\* C6: when the listener cannot be created (bind fails, the builder returns
\* None, adoption fails) the stream is the one-failure stream: it yields one
\* failure and no peer, it ends only after that failure, and nothing is accepted
\* and no descriptor stays open.
C6_ListenFailureIsOneError ==
    ListenFailed =>
        /\ stream.kind = "err"
        /\ peers = <<>>
        /\ stream.accepts = 0
        /\ arrived = 0
        /\ stream.errItems <= 1
        /\ stream.ended => stream.errItems = 1
        /\ OpenFds = {}

\* a failed listener's stream has yielded its failure and ended
C6_Witness ==
    /\ ListenFailed
    /\ stream.ended
    /\ stream.errItems = 1
    /\ peers = <<>>

\* a listener scheme was given a filesystem path at which a file sits
ListenOverFile ==
    /\ pc = "stream"
    /\ \/ cmd.scheme = "unix-listen:"
       \/ cmd.scheme = "seqpacket-listen:" /\ cmd.arg # <<>> /\ cmd.arg[1] # AT
    /\ cmd.arg \in cmd.files

\* C7, for paths that fit the 108-byte buffer: with a file at the target path,
\* unlink-before-bind enabled removes that file before bind is attempted and
\* bind does not find the address in use; disabled, the file stays and bind
\* fails on it (unless socket() failed first). An unlink that fails, the file
\* being absent, stops nothing: bind is attempted all the same.
C7_ListenerUnlink ==
    /\ ListenOverFile /\ Len(cmd.arg) <= SunPathLen =>
          IF cmd.unlink
          THEN calls.bind # <<>> => cmd.arg \notin fs /\ calls.failed # "inuse"
          ELSE cmd.arg \in fs /\ calls.failed \in {"inuse", "socket"}
    /\ pc = "stream" /\ cmd.unlink /\ cmd.arg \notin cmd.files /\ calls.failed # "socket" =>
          calls.bind # <<>>

\* C8: in every raw-syscall encoder the packed address of a name, buffer and
\* length, is the packed address of the name's first 108 bytes; the buffer keeps
\* its 108 bytes and the length never exceeds 108 plus the family field.
C8_TruncationLaw ==
    enc.op # "none" =>
        LET first == Take(input, SunPathLen)
            again == CASE enc.op = "dgram_bind" -> DgramBindAddr(first)
                       [] enc.op = "dgram_connect" -> DgramConnectAddr(first)
                       [] enc.op = "seq_connect" -> SeqConnectAddr(first)
                       [] enc.op = "seq_listen" -> SeqListenAddr(first, FALSE)
                       [] enc.op = "seq_listen_unlink" -> SeqListenAddr(first, TRUE)
        IN  /\ enc.sun_path = again.sun_path
            /\ enc.sa_len = again.sa_len
            /\ DOMAIN enc.sun_path = 1..SunPathLen
            /\ enc.sa_len = Len(first) + SaFamilySize
            /\ enc.sa_len <= SunPathLen + SaFamilySize

\* a name longer than the buffer was packed
C8_Witness ==
    /\ enc.op \in {"dgram_bind", "seq_listen_unlink"}
    /\ Len(input) > SunPathLen
    /\ enc.sa_len = SunPathLen + SaFamilySize

SeqOps == {"seq_connect", "seq_listen", "seq_listen_unlink"}

\* C9 as stated: for every name n the bytes of to_abstract(n) and the address
\* the sequenced-packet encoders pack for "@" + n are the same bytes, and a
\* name that does not begin with "@" is never packed as an abstract address.
C9_AbstractEqualsAtMarker ==
    enc.op \in SeqOps /\ input \in Names /\ input # <<>> =>
        IF input[1] = AT
        THEN AddrBytes(enc) = to_abstract(Tail(input))
        ELSE ~IsAbstractAddr(enc)

\* C9, amended: the address the sequenced-packet encoders pack for "@" + n is
\* the first 108 bytes of to_abstract(n), all of it when n has at most 107
\* bytes; a name that does not begin with "@" is never packed as an abstract
\* address.
C9_AbstractPrefixOfAtMarker ==
    enc.op \in SeqOps /\ input \in Names /\ input # <<>> =>
        IF input[1] = AT
        THEN /\ AddrBytes(enc) = Take(to_abstract(Tail(input)), SunPathLen)
             /\ Len(input) <= SunPathLen => AddrBytes(enc) = to_abstract(Tail(input))
             /\ IsAbstractAddr(enc)
        ELSE ~IsAbstractAddr(enc)

\* "@" + n was packed for a name n of 108 bytes or more
C9_Witness ==
    /\ enc.op \in SeqOps
    /\ input \in Names
    /\ Len(input) > SunPathLen
    /\ input[1] = AT
    /\ enc.sun_path[1] = NUL

\* C10: the peer made for abstract-dgram:a:b binds the abstract address of a and
\* connects to the abstract address of b: a NUL byte followed by the name.
C10_AbstractDgramIsAbstract ==
    cmd.scheme = "abstract-dgram:" /\ pc = "future" =>
        /\ calls.bind = <<to_abstract(Split(cmd.arg)[1])>>
        /\ calls.connect # <<>> => calls.connect = <<to_abstract(Split(cmd.arg)[2])>>

DgramSchemes == {"unix-dgram:", "abstract-dgram:"}

\* no socket was created, bound or connected and no file was unlinked
NothingTouched ==
    /\ calls = NoCalls
    /\ \A f \in Fds : kern[f] = NoSock
    /\ fs = cmd.files
    /\ socks = {}
    /\ peers = <<>>
    /\ stream = NoStream

\* C11: for unix-dgram and abstract-dgram, an argument that does not split on
\* ":" into exactly two parts ends in an address-parse failure with no specifier
\* made and no socket created, bound or connected and no file unlinked; an
\* argument of exactly two parts is never rejected, the specifier holds the
\* first part as bind address and the second as connect address, and these are
\* the addresses then handed to bind and to connect.
C11_DgramArgSplit ==
    cmd.scheme \in DgramSchemes =>
        LET splits == Split(cmd.arg)
        IN  IF Len(splits) # 2
            THEN /\ pc \in {"cmdline", "parse_error"}
                 /\ specifier = NoSpecifier
                 /\ NothingTouched
            ELSE /\ pc # "parse_error"
                 /\ pc = "cmdline" => NothingTouched
                 /\ pc # "cmdline" =>
                       /\ specifier.type = "UnixDgram"
                       /\ specifier.a = splits[1]
                       /\ specifier.b = splits[2]
                 /\ calls.bind # <<>> => calls.bind = <<splits[1]>>
                 /\ calls.connect # <<>> => calls.connect = <<splits[2]>>

\* an abstract-dgram argument of three parts was rejected
C11_Witness ==
    /\ cmd.scheme = "abstract-dgram:"
    /\ Len(Split(cmd.arg)) = 3
    /\ pc = "parse_error"

\* a unix-dgram argument of two parts was accepted and its peer connected
C11_Accepted ==
    /\ cmd.scheme = "unix-dgram:"
    /\ Len(Split(cmd.arg)) = 2
    /\ pc = "future"
    /\ calls.connect = <<Split(cmd.arg)[2]>>

\* the sequenced-packet listen builder was given a filesystem path and reached bind
SeqListenPathBound ==
    /\ cmd.scheme = "seqpacket-listen:"
    /\ pc = "stream"
    /\ cmd.arg # <<>>
    /\ cmd.arg[1] # AT
    /\ calls.bind # <<>>

\* C12: in the sequenced-packet listen builder, for a filesystem path of any
\* length, the address handed to bind is the first min(108, len) bytes of the
\* path, verbatim, with length min(108, len) plus the family field, whether
\* unlink-before-bind is on or off; with it on a path is unlinked, and the path
\* unlinked is the path the bound address names.
C12_UnlinkKeepsBoundAddress ==
    SeqListenPathBound =>
        /\ calls.bind = <<Take(cmd.arg, SunPathLen)>>
        /\ cmd.unlink <=> calls.unlinked # <<>>
        /\ calls.unlinked # <<>> => calls.unlinked = <<CStr(calls.bind[1])>>

\* the same for paths shorter than the buffer, and for every path when
\* unlink-before-bind is off
C12_HoldsBelowCapacity ==
    SeqListenPathBound /\ (Len(cmd.arg) < SunPathLen \/ ~cmd.unlink) =>
        /\ calls.bind = <<Take(cmd.arg, SunPathLen)>>
        /\ cmd.unlink <=> calls.unlinked # <<>>
        /\ calls.unlinked # <<>> => calls.unlinked = <<CStr(calls.bind[1])>>

\* a path that fills the buffer was bound with unlink-before-bind on
C12_FullBufferUnlinked ==
    /\ SeqListenPathBound
    /\ cmd.unlink
    /\ Len(cmd.arg) >= SunPathLen
    /\ calls.failed = "none"

====
